---- MODULE Spec2Model ----
(***************************************************************************)
(* Model of device-gpiod: the pump / reverse / clean actuation sequencer   *)
(* (driver/simpledriver.go), the traffic-light indicators                  *)
(* (driver/trafficLight.go), the GPIO line wrapper (gpio package) and the  *)
(* connectivity watchdog (connected / ConnectionCheck).                    *)
(*                                                                         *)
(* Goroutines are processes: the sequencer (handleStartGpio and the two    *)
(* sub-pipelines it calls), the watchdog prober (connected), the watchdog  *)
(* reporter (ConnectionCheck) and the Flashing tasks started with `go`.    *)
(* The indicator flags are package-level variables written without a lock, *)
(* so every write of Up/Down/SetFlashOn/SetFlashOff is a step of its own.  *)
(***************************************************************************)
EXTENDS Integers, Sequences, FiniteSets, TLC

\* ---------------------------------------------------------------- bounds
\* Number of Flashing goroutines of one colour that can be alive at the same time.
MaxTasks == 1
\* Number of physical lines that may fail in one run (the others always work).
MaxFaulty == 1
\* Longest run of consecutive Disconnected values the open environment sends.
MaxRun == 3
\* Failed passes of the readiness loop that are followed.
MaxChecks == 6
\* Largest duration, in minutes, given in the environment.
MaxRawMinutes == 11

\* ------------------------------------------------------------- constants
MAX_RETRY == 5
MIN_PUMP == 5
SecondsPerMinute == 60
\* int64: eight bytes
Int64Limbs == 8
LimbBase == 256

Colors == {"G", "Y", "R"}
SeqLines == {"pump", "reverse", "clean", "openValve", "switchingValve"}
Lines == SeqLines \cup Colors

\* ------------------------------------------------------------- processes
\* Process 0 is the sequencer, then come the slots of the Flashing('G') goroutines
\* (started by handleReverseGpio), the slots of the Flashing('R') goroutines (started
\* by ConnectionCheck), and the reporter.  Flashing('Y') is never started.
SeqP == 0
Tasks == 1..(2 * MaxTasks)
RepP == 2 * MaxTasks + 1
\* `go Flashing('R')` waits for nothing: the slot after the reporter holds the
\* Flashing('R') goroutine that ConnectionCheck starts while the earlier ones are
\* all still alive.
Spare == 2 * MaxTasks + 2
Procs == 0..(2 * MaxTasks + 2)

TaskColor(t) == IF t <= MaxTasks THEN "G" ELSE "R"

VARIABLES
    line,          \* physical level of every line (TRUE = high)
    status,        \* lights.status  per colour (solid flag)
    flashing,      \* lights.flashing per colour
    pc,            \* position of the sequencer, the reporter and each task slot
    call,          \* indicator call in progress, per process
    err,           \* the Go variable err of the running function, per process
    pumpState,     \* gpio.State of the pump in handleStartGpio
    reverseState,  \* reverse.State inside handleReverseGpio
    cleanState,    \* clean.State inside handleCleanGpio
    sleepForGap,   \* local of handleStartGpio
    sinceStart,    \* time.Now().Unix() - *startTs while the pump is on (0 while it
                   \* is off, where it is not read), saturated above pumpTimer
    attempt,       \* readiness loop counter
    lastPass,      \* what the latest pass of the readiness loop observed
    checks,        \* failed passes of the readiness loop while it is running
    enableReverse, enableClean, pumpTimer,   \* configuration
    faulty,        \* lines whose driver calls may fail in this run
    log,           \* sequencer events since the last pump actuation attempt
    prb,           \* position of the prober (connected)
    poll,          \* the prober's current poll: probe result and values pushed
    checkLoop,     \* local of ConnectionCheck
    run,           \* reporter bookkeeping for the current run of Disconnected
    blink,         \* per task slot: what the Flashing goroutine did last
    raw,           \* the raw environment value Initialize parsed last
    dur,           \* *pumpTimer, *commandGap, *cleanTimer, *reverseTimer, *gravityTimer
    ipc            \* how many of them Initialize has set

vars == <<line, status, flashing, pc, call, err, pumpState, reverseState,
          cleanState, sleepForGap, sinceStart, attempt, lastPass, checks,
          enableReverse, enableClean,
          pumpTimer, faulty, log, prb, poll, checkLoop, run, blink, raw, dur, ipc>>

rdVars == <<attempt, lastPass, checks>>

seqVars == <<pumpState, reverseState, cleanState, sleepForGap, sinceStart, rdVars,
             log>>
cfgVars == <<enableReverse, enableClean, pumpTimer, faulty, raw, dur, ipc>>
wdVars == <<prb, poll, checkLoop, run>>

\* --------------------------------------------------------- the GPIO line
\* gpio.Up / gpio.Down: setupOutputLine(level) then releaseLine(); either may
\* return an error.  A failed request leaves the line as it was; a failed
\* release comes after the line has been driven.
Outcomes(l) == IF l \in faulty THEN {"ok", "setupFail", "releaseFail"} ELSE {"ok"}

GpioErr(o) == o # "ok"

GpioSet(lines, l, level, o) ==
    IF o = "setupFail" THEN lines ELSE [lines EXCEPT ![l] = level]

\* ------------------------------------------------------ indicator calls
\* The colours whose *lights record has been allocated.  `green, yellow, red *lights`
\* are declared without a value and no statement of the package assigns them, so
\* the three pointers are nil from start to end.  The calls below are followed as
\* if the records existed.
Allocated == {}

NoCall == [op |-> "none", color |-> "-", step |-> 0, e |-> FALSE]

Frame(op, c) == [op |-> op, color |-> c, step |-> 0, e |-> FALSE]

\* The two colours Up(color) clears, in the order of the assignments.
UpOthers(c) ==
    CASE c = "G" -> <<"Y", "R">>
      [] c = "Y" -> <<"R", "G">>
      [] c = "R" -> <<"G", "Y">>

\* The two colours SetFlashOn(color) clears, in the order of the assignments.
FlashOthers(c) ==
    CASE c = "G" -> <<"Y", "R">>
      [] c = "Y" -> <<"G", "R">>
      [] c = "R" -> <<"G", "Y">>

\* Up(color): err = <light>.gpio.Up(); status = true; the two others = false;
\* return err.  The flag writes do not depend on err.
UpStep(p) ==
    LET f == call[p] IN
    /\ f.op = "Up"
    /\ CASE f.step = 0 ->
              \E o \in Outcomes(f.color) :
                 /\ line' = GpioSet(line, f.color, TRUE, o)
                 /\ call' = [call EXCEPT ![p] = [f EXCEPT !.step = 1, !.e = GpioErr(o)]]
                 /\ UNCHANGED <<status, err>>
         [] f.step = 1 ->
              /\ status' = [status EXCEPT ![f.color] = TRUE]
              /\ call' = [call EXCEPT ![p].step = 2]
              /\ UNCHANGED <<line, err>>
         [] f.step = 2 ->
              /\ status' = [status EXCEPT ![UpOthers(f.color)[1]] = FALSE]
              /\ call' = [call EXCEPT ![p].step = 3]
              /\ UNCHANGED <<line, err>>
         [] f.step = 3 ->
              /\ status' = [status EXCEPT ![UpOthers(f.color)[2]] = FALSE]
              /\ call' = [call EXCEPT ![p].step = 4]
              /\ UNCHANGED <<line, err>>
         [] f.step = 4 ->
              /\ err' = [err EXCEPT ![p] = f.e]
              /\ call' = [call EXCEPT ![p] = NoCall]
              /\ UNCHANGED <<line, status>>
    /\ UNCHANGED flashing

\* Down(color): err = <light>.gpio.Down(); status = false; return err.
DownStep(p) ==
    LET f == call[p] IN
    /\ f.op = "Down"
    /\ CASE f.step = 0 ->
              \E o \in Outcomes(f.color) :
                 /\ line' = GpioSet(line, f.color, FALSE, o)
                 /\ call' = [call EXCEPT ![p] = [f EXCEPT !.step = 1, !.e = GpioErr(o)]]
                 /\ UNCHANGED <<status, err>>
         [] f.step = 1 ->
              /\ status' = [status EXCEPT ![f.color] = FALSE]
              /\ err' = [err EXCEPT ![p] = f.e]
              /\ call' = [call EXCEPT ![p] = NoCall]
              /\ UNCHANGED line
    /\ UNCHANGED flashing

\* SetFlashOn(color): flashing = true, then the two others = false.
SetFlashOnStep(p) ==
    LET f == call[p] IN
    /\ f.op = "SetFlashOn"
    /\ CASE f.step = 0 ->
              /\ flashing' = [flashing EXCEPT ![f.color] = TRUE]
              /\ call' = [call EXCEPT ![p].step = 1]
         [] f.step = 1 ->
              /\ flashing' = [flashing EXCEPT ![FlashOthers(f.color)[1]] = FALSE]
              /\ call' = [call EXCEPT ![p].step = 2]
         [] f.step = 2 ->
              /\ flashing' = [flashing EXCEPT ![FlashOthers(f.color)[2]] = FALSE]
              /\ call' = [call EXCEPT ![p] = NoCall]
    /\ UNCHANGED <<line, status, err>>

\* SetFlashOff(color): flashing = false.
SetFlashOffStep(p) ==
    /\ call[p].op = "SetFlashOff"
    /\ flashing' = [flashing EXCEPT ![call[p].color] = FALSE]
    /\ call' = [call EXCEPT ![p] = NoCall]
    /\ UNCHANGED <<line, status, err>>

\* One step of the indicator call process p is in.
IndStep(p) ==
    /\ call[p] # NoCall
    /\ UpStep(p) \/ DownStep(p) \/ SetFlashOnStep(p) \/ SetFlashOffStep(p)
    /\ UNCHANGED <<pc, seqVars, cfgVars, blink, wdVars>>

\* ------------------------------------------------------ sequencer events
Act(l, level, o) == [k |-> "act", a |-> l, b |-> o, v |-> level, ok |-> ~GpioErr(o)]
Ind(op, c) == [k |-> "ind", a |-> op, b |-> c, v |-> FALSE, ok |-> TRUE]
Push(l, state) == [k |-> "push", a |-> l, b |-> "-", v |-> state, ok |-> TRUE]
Sleep(name) == [k |-> "sleep", a |-> name, b |-> "-", v |-> FALSE, ok |-> TRUE]
Spawned(c) == [k |-> "spawn", a |-> "Flashing", b |-> c, v |-> FALSE, ok |-> TRUE]

SeqAt(l) == pc[SeqP] = l /\ call[SeqP] = NoCall

\* Lowest free slot for a Flashing(c) goroutine (0 when MaxTasks of them are alive).
FreeSlot(c) ==
    LET free == {t \in Tasks : TaskColor(t) = c /\ pc[t] = "idle"} IN
    IF free = {} THEN 0 ELSE CHOOSE t \in free : \A u \in free : t <= u

\* Mutant of StateAfter: the State field is written whether or not the call failed.
StateAfterAlways(old, level, failed) == level

\* The State field after `err := gpio.Up()/Down()` and the guarded assignment
\* that follows it: it is written only when err == nil.
StateAfter(old, level, failed) == IF failed THEN old ELSE level

\* Mutant of HoldExpired: a strict comparison.
HoldExpiredStrict(since, timer) == since > timer

\* time.Now().Unix()-*startTs >= *pumpTimer
HoldExpired(since, timer) == since >= timer

\* Values of time.Now().Unix()-*startTs above pumpTimer+1 are not told apart.
Saturate(t) == IF t > pumpTimer + 1 THEN pumpTimer + 1 ELSE t

\* Seconds that may pass between setting *startTs and the first hold check
\* (the light actuation and the channel send in between take time).
Delays == {0, pumpTimer - 1, pumpTimer}

\* ------------------------------------------------------- handleStartGpio
\* What one pass of the readiness loop can observe: the device is in the registry
\* (errGpio == nil), the companion endpoint answered (errModbus == nil), the body
\* was read (err == nil), and the status code, which is looked at only when the
\* body could not be read.  A check that fails ends the pass.
ReadyPasses ==
    {p \in [device : BOOLEAN, endpoint : BOOLEAN, body : BOOLEAN, status200 : BOOLEAN] :
        /\ ~p.device => ~p.endpoint
        /\ ~p.endpoint => ~p.body
        /\ (~p.endpoint \/ p.body) => ~p.status200}

NoPass == [device |-> FALSE, endpoint |-> FALSE, body |-> FALSE, status200 |-> FALSE]

\* Mutant of StartPipeline: any answer of the endpoint starts the pipeline.
StartPipelineAnyStatus(p) == p.device /\ p.endpoint

\* startPipeline = true is reached in a pass
StartPipeline(p) == p.device /\ p.endpoint /\ (p.body \/ p.status200)

\* One pass of `for !startPipeline { ... }`.
Ready ==
    /\ SeqAt("ready")
    /\ \E p \in ReadyPasses :
         /\ lastPass' = p
         /\ StartPipeline(p) \/ checks < MaxChecks
         /\ IF StartPipeline(p)
            THEN /\ pc' = [pc EXCEPT ![SeqP] = "loop"]
                 /\ sleepForGap' = FALSE
                 /\ checks' = 0
                 /\ UNCHANGED attempt
            ELSE /\ checks' = checks + 1
                 /\ UNCHANGED sleepForGap
                 /\ IF ~p.device
                    THEN /\ attempt' = attempt + 1
                         /\ pc' = [pc EXCEPT ![SeqP] =
                                     IF attempt + 1 > MAX_RETRY THEN "exited" ELSE "ready"]
                    ELSE UNCHANGED <<attempt, pc>>
    /\ UNCHANGED <<line, status, flashing, call, err, pumpState, reverseState,
                   cleanState, sinceStart, log, cfgVars, blink, wdVars>>

\* if !gpio.State { err := gpio.Up() ... }
PumpOn ==
    /\ SeqAt("loop") /\ ~pumpState
    /\ \E o \in Outcomes("pump") :
         /\ line' = GpioSet(line, "pump", TRUE, o)
         /\ pumpState' = StateAfter(pumpState, TRUE, GpioErr(o))
         /\ err' = [err EXCEPT ![SeqP] = GpioErr(o)]
         /\ IF GpioErr(o)
            THEN /\ call' = [call EXCEPT ![SeqP] = Frame("Up", "R")]
                 /\ pc' = [pc EXCEPT ![SeqP] = "onFailed"]
                 /\ log' = <<Act("pump", TRUE, o), Ind("Up", "R")>>
                 /\ UNCHANGED sinceStart
            ELSE /\ sinceStart' = 0
                 /\ call' = [call EXCEPT ![SeqP] = Frame("Up", "G")]
                 /\ pc' = [pc EXCEPT ![SeqP] = "onPush"]
                 /\ log' = <<Act("pump", TRUE, o), Ind("Up", "G")>>
    /\ UNCHANGED <<status, flashing, reverseState, cleanState, sleepForGap,
                   rdVars, cfgVars, blink, wdVars>>

\* time.Sleep(time.Second); continue   (after the failed pump-on or pump-off)
RetrySleep ==
    /\ SeqAt("onFailed") \/ SeqAt("offFailed")
    /\ sinceStart' = IF pc[SeqP] = "offFailed" THEN Saturate(sinceStart + 1) ELSE sinceStart
    /\ log' = Append(log, Sleep("retry"))
    /\ pc' = [pc EXCEPT ![SeqP] = "loop"]
    /\ UNCHANGED <<line, status, flashing, call, err, pumpState, reverseState,
                   cleanState, sleepForGap, rdVars, cfgVars, blink, wdVars>>

\* s.handleAsyncCommunication(gpio) after the pump was turned on
OnPush ==
    /\ SeqAt("onPush")
    /\ log' = Append(log, Push("pump", pumpState))
    /\ \E d \in Delays : sinceStart' = d
    /\ pc' = [pc EXCEPT ![SeqP] = "gap"]
    /\ UNCHANGED <<line, status, flashing, call, err, pumpState, reverseState,
                   cleanState, sleepForGap, rdVars, cfgVars, blink, wdVars>>

\* the else branch of the hold check: time.Sleep(time.Duration(*pumpTimer) * time.Second)
Hold ==
    /\ SeqAt("loop") /\ pumpState
    /\ ~HoldExpired(sinceStart, pumpTimer)
    /\ sinceStart' = Saturate(sinceStart + pumpTimer)
    /\ log' = Append(log, Sleep("hold"))
    /\ pc' = [pc EXCEPT ![SeqP] = "gap"]
    /\ UNCHANGED <<line, status, flashing, call, err, pumpState, reverseState,
                   cleanState, sleepForGap, rdVars, cfgVars, blink, wdVars>>

\* the hold check succeeded: err := gpio.Down() ...
PumpOff ==
    /\ SeqAt("loop") /\ pumpState
    /\ HoldExpired(sinceStart, pumpTimer)
    /\ \E o \in Outcomes("pump") :
         /\ line' = GpioSet(line, "pump", FALSE, o)
         /\ pumpState' = StateAfter(pumpState, FALSE, GpioErr(o))
         /\ err' = [err EXCEPT ![SeqP] = GpioErr(o)]
         /\ IF GpioErr(o)
            THEN /\ call' = [call EXCEPT ![SeqP] = Frame("Up", "R")]
                 /\ pc' = [pc EXCEPT ![SeqP] = "offFailed"]
                 /\ log' = <<Act("pump", FALSE, o), Ind("Up", "R")>>
                 /\ UNCHANGED sinceStart
            ELSE /\ call' = [call EXCEPT ![SeqP] = Frame("Down", "G")]
                 /\ pc' = [pc EXCEPT ![SeqP] = "afterOff"]
                 /\ log' = <<Act("pump", FALSE, o), Ind("Down", "G")>>
                 /\ sinceStart' = 0
    /\ UNCHANGED <<status, flashing, reverseState, cleanState, sleepForGap,
                   rdVars, cfgVars, blink, wdVars>>

\* if *enableReverse { s.handleReverseGpio(...) }
AfterOff ==
    /\ SeqAt("afterOff")
    /\ pc' = [pc EXCEPT ![SeqP] = IF enableReverse THEN "revUp" ELSE "offPush"]
    /\ UNCHANGED <<line, status, flashing, call, err, seqVars, cfgVars, blink, wdVars>>

\* sleepForGap = true; s.handleAsyncCommunication(gpio).  The copies of reverse and
\* clean that the sub-pipelines worked on are gone by now.
OffPush ==
    /\ SeqAt("offPush")
    /\ sleepForGap' = TRUE
    /\ log' = Append(log, Push("pump", pumpState))
    /\ pc' = [pc EXCEPT ![SeqP] = "gap"]
    /\ reverseState' = FALSE
    /\ cleanState' = FALSE
    /\ UNCHANGED <<line, status, flashing, call, err, pumpState, sinceStart,
                   rdVars, cfgVars, blink, wdVars>>

\* if sleepForGap { time.Sleep(*commandGap); sleepForGap = false }
Gap ==
    /\ SeqAt("gap")
    /\ log' = IF sleepForGap THEN Append(log, Sleep("commandGap")) ELSE log
    /\ sleepForGap' = FALSE
    /\ pc' = [pc EXCEPT ![SeqP] = "loop"]
    /\ UNCHANGED <<line, status, flashing, call, err, pumpState, reverseState,
                   cleanState, sinceStart, rdVars, cfgVars, blink, wdVars>>

\* ----------------------------------------------------- handleReverseGpio
\* `reverse.Down()` and `clean.Down()` are statements: the result is dropped
\* and the `if err != nil` that follows reads the value err already had.
DiscardedErr(old, result) == old

\* err := reverse.Up(); on success reverse.State = true; SetFlashOn('G')
RevUp ==
    /\ SeqAt("revUp")
    /\ \E o \in Outcomes("reverse") :
         /\ line' = GpioSet(line, "reverse", TRUE, o)
         /\ reverseState' = StateAfter(FALSE, TRUE, GpioErr(o))
         /\ err' = [err EXCEPT ![SeqP] = GpioErr(o)]
         /\ IF GpioErr(o)
            THEN /\ call' = [call EXCEPT ![SeqP] = Frame("Up", "R")]
                 /\ pc' = [pc EXCEPT ![SeqP] = "offPush"]
                 /\ log' = log \o <<Act("reverse", TRUE, o), Ind("Up", "R")>>
            ELSE /\ call' = [call EXCEPT ![SeqP] = Frame("SetFlashOn", "G")]
                 /\ pc' = [pc EXCEPT ![SeqP] = "revSpawn"]
                 /\ log' = log \o <<Act("reverse", TRUE, o), Ind("SetFlashOn", "G")>>
    /\ UNCHANGED <<status, flashing, pumpState, cleanState, sleepForGap,
                   sinceStart, rdVars, cfgVars, blink, wdVars>>

\* go Flashing('G')
RevSpawn ==
    /\ SeqAt("revSpawn")
    /\ FreeSlot("G") # 0
    /\ pc' = [pc EXCEPT ![SeqP] = "revPush1", ![FreeSlot("G")] = "fcheck"]
    /\ log' = Append(log, Spawned("G"))
    /\ blink' = [blink EXCEPT ![FreeSlot("G")] = "started"]
    /\ UNCHANGED <<line, status, flashing, call, err, pumpState, reverseState,
                   cleanState, sleepForGap, sinceStart, rdVars, cfgVars, wdVars>>

\* s.handleAsyncCommunication(reverse) after reverse.State = true
RevPush1 ==
    /\ SeqAt("revPush1")
    /\ log' = Append(log, Push("reverse", reverseState))
    /\ pc' = [pc EXCEPT ![SeqP] = "revDown"]
    /\ UNCHANGED <<line, status, flashing, call, err, pumpState, reverseState,
                   cleanState, sleepForGap, sinceStart, rdVars, cfgVars, blink, wdVars>>

\* time.Sleep(*reverseTimer); reverse.Down(); if err != nil {...}; reverse.State = false;
\* SetFlashOff('G')
RevDown ==
    /\ SeqAt("revDown")
    /\ \E o \in Outcomes("reverse") :
         LET e == DiscardedErr(err[SeqP], GpioErr(o)) IN
         /\ line' = GpioSet(line, "reverse", FALSE, o)
         /\ err' = [err EXCEPT ![SeqP] = e]
         /\ reverseState' = StateAfter(reverseState, FALSE, e)
         /\ IF e
            THEN /\ call' = [call EXCEPT ![SeqP] = Frame("Up", "R")]
                 /\ pc' = [pc EXCEPT ![SeqP] = "offPush"]
                 /\ log' = log \o <<Sleep("reverseTimer"), Act("reverse", FALSE, o),
                                    Ind("Up", "R")>>
            ELSE /\ call' = [call EXCEPT ![SeqP] = Frame("SetFlashOff", "G")]
                 /\ pc' = [pc EXCEPT ![SeqP] = "revPush2"]
                 /\ log' = log \o <<Sleep("reverseTimer"), Act("reverse", FALSE, o),
                                    Ind("SetFlashOff", "G")>>
    /\ UNCHANGED <<status, flashing, pumpState, cleanState, sleepForGap,
                   sinceStart, rdVars, cfgVars, blink, wdVars>>

\* s.handleAsyncCommunication(reverse); if *enableClean { s.handleCleanGpio(...) }
RevPush2 ==
    /\ SeqAt("revPush2")
    /\ log' = Append(log, Push("reverse", reverseState))
    /\ pc' = [pc EXCEPT ![SeqP] = IF enableClean THEN "svUp" ELSE "offPush"]
    /\ UNCHANGED <<line, status, flashing, call, err, pumpState, reverseState,
                   cleanState, sleepForGap, sinceStart, rdVars, cfgVars, blink, wdVars>>

\* ------------------------------------------------------- handleCleanGpio
\* Mutant of CleanPcs: the switching valve is restored before the inlet is closed.
CleanPcsSwapped ==
    <<"svUp", "ovUp", "clUp", "clPush1", "clDown", "clPush2", "svDown", "ovDown", "offPush">>

\* The statements of handleCleanGpio in program order; the last entry is where
\* its caller continues.
CleanPcs ==
    <<"svUp", "ovUp", "clUp", "clPush1", "clDown", "clPush2", "ovDown", "svDown", "offPush">>

AfterClean(l) ==
    LET i == CHOOSE j \in 1..(Len(CleanPcs) - 1) : CleanPcs[j] = l IN CleanPcs[i + 1]

\* A valve step: err = valve.Up()/Down(); on failure Up('R') and return, on
\* success the settle sleeps.
ValveStep(at, l, level, sleeps) ==
    /\ SeqAt(at)
    /\ \E o \in Outcomes(l) :
         /\ line' = GpioSet(line, l, level, o)
         /\ err' = [err EXCEPT ![SeqP] = GpioErr(o)]
         /\ IF GpioErr(o)
            THEN /\ call' = [call EXCEPT ![SeqP] = Frame("Up", "R")]
                 /\ pc' = [pc EXCEPT ![SeqP] = "offPush"]
                 /\ log' = log \o <<Act(l, level, o), Ind("Up", "R")>>
            ELSE /\ call' = call
                 /\ pc' = [pc EXCEPT ![SeqP] = AfterClean(at)]
                 /\ log' = log \o <<Act(l, level, o)>> \o sleeps
    /\ UNCHANGED <<status, flashing, pumpState, reverseState, cleanState,
                   sleepForGap, sinceStart, rdVars, cfgVars, blink, wdVars>>

\* Step 1: switchingValve.Up(); time.Sleep(switchingTimer)
SvUp == ValveStep("svUp", "switchingValve", TRUE, <<Sleep("switchingTimer")>>)

\* Step 2: openValve.Up(); time.Sleep(openingTimer)
OvUp == ValveStep("ovUp", "openValve", TRUE, <<Sleep("openingTimer")>>)

\* Step 3: err = clean.Up(); clean.State = true; err = Up('Y')
ClUp ==
    /\ SeqAt("clUp")
    /\ \E o \in Outcomes("clean") :
         /\ line' = GpioSet(line, "clean", TRUE, o)
         /\ cleanState' = StateAfter(FALSE, TRUE, GpioErr(o))
         /\ err' = [err EXCEPT ![SeqP] = GpioErr(o)]
         /\ IF GpioErr(o)
            THEN /\ call' = [call EXCEPT ![SeqP] = Frame("Up", "R")]
                 /\ pc' = [pc EXCEPT ![SeqP] = "offPush"]
                 /\ log' = log \o <<Act("clean", TRUE, o), Ind("Up", "R")>>
            ELSE /\ call' = [call EXCEPT ![SeqP] = Frame("Up", "Y")]
                 /\ pc' = [pc EXCEPT ![SeqP] = AfterClean("clUp")]
                 /\ log' = log \o <<Act("clean", TRUE, o), Ind("Up", "Y")>>
    /\ UNCHANGED <<status, flashing, pumpState, reverseState, sleepForGap,
                   sinceStart, rdVars, cfgVars, blink, wdVars>>

\* s.handleAsyncCommunication(clean) after clean.State = true
ClPush1 ==
    /\ SeqAt("clPush1")
    /\ log' = Append(log, Push("clean", cleanState))
    /\ pc' = [pc EXCEPT ![SeqP] = AfterClean("clPush1")]
    /\ UNCHANGED <<line, status, flashing, call, err, pumpState, reverseState,
                   cleanState, sleepForGap, sinceStart, rdVars, cfgVars, blink, wdVars>>

\* time.Sleep(*cleanTimer); clean.Down(); if err != nil {...}; clean.State = false;
\* err = Down('Y')
ClDown ==
    /\ SeqAt("clDown")
    /\ \E o \in Outcomes("clean") :
         LET e == DiscardedErr(err[SeqP], GpioErr(o)) IN
         /\ line' = GpioSet(line, "clean", FALSE, o)
         /\ err' = [err EXCEPT ![SeqP] = e]
         /\ cleanState' = StateAfter(cleanState, FALSE, e)
         /\ IF e
            THEN /\ call' = [call EXCEPT ![SeqP] = Frame("Up", "R")]
                 /\ pc' = [pc EXCEPT ![SeqP] = "offPush"]
                 /\ log' = log \o <<Sleep("cleanTimer"), Act("clean", FALSE, o),
                                    Ind("Up", "R")>>
            ELSE /\ call' = [call EXCEPT ![SeqP] = Frame("Down", "Y")]
                 /\ pc' = [pc EXCEPT ![SeqP] = AfterClean("clDown")]
                 /\ log' = log \o <<Sleep("cleanTimer"), Act("clean", FALSE, o),
                                    Ind("Down", "Y")>>
    /\ UNCHANGED <<status, flashing, pumpState, reverseState, sleepForGap,
                   sinceStart, rdVars, cfgVars, blink, wdVars>>

\* s.handleAsyncCommunication(clean) after clean.State = false
ClPush2 ==
    /\ SeqAt("clPush2")
    /\ log' = Append(log, Push("clean", cleanState))
    /\ pc' = [pc EXCEPT ![SeqP] = AfterClean("clPush2")]
    /\ UNCHANGED <<line, status, flashing, call, err, pumpState, reverseState,
                   cleanState, sleepForGap, sinceStart, rdVars, cfgVars, blink, wdVars>>

\* err = openValve.Down(); time.Sleep(openingTimer); time.Sleep(*gravityTimer)
OvDown ==
    ValveStep("ovDown", "openValve", FALSE, <<Sleep("openingTimer"), Sleep("gravityTimer")>>)

\* err = switchingValve.Down(); time.Sleep(switchingTimer)
SvDown == ValveStep("svDown", "switchingValve", FALSE, <<Sleep("switchingTimer")>>)

\* -------------------------------------------------------------- Flashing
\* blink[t] is what the goroutine in slot t did last: it was "started", it "slept"
\* its time.Sleep(3 * time.Second), or it "lowered" the line with Down(color).
\* return from Flashing: the goroutine is gone
TaskExit(t) ==
    /\ pc' = [pc EXCEPT ![t] = "idle"]
    /\ err' = [err EXCEPT ![t] = FALSE]
    /\ blink' = [blink EXCEPT ![t] = "none"]
    /\ UNCHANGED call

\* for flashingLight.flashing { err = Up(color)
FlashCheck(t) ==
    /\ pc[t] = "fcheck" /\ call[t] = NoCall
    /\ IF flashing[TaskColor(t)]
       THEN /\ call' = [call EXCEPT ![t] = Frame("Up", TaskColor(t))]
            /\ pc' = [pc EXCEPT ![t] = "fup"]
            /\ UNCHANGED <<err, blink>>
       ELSE TaskExit(t)
    /\ UNCHANGED <<line, status, flashing, seqVars, cfgVars, wdVars>>

\* if err != nil { return err }; time.Sleep(3 * time.Second); err = Down(color)
FlashUp(t) ==
    /\ pc[t] = "fup" /\ call[t] = NoCall
    /\ IF err[t]
       THEN TaskExit(t)
       ELSE /\ call' = [call EXCEPT ![t] = Frame("Down", TaskColor(t))]
            /\ pc' = [pc EXCEPT ![t] = "fdown"]
            /\ blink' = [blink EXCEPT ![t] = "slept"]
            /\ UNCHANGED err
    /\ UNCHANGED <<line, status, flashing, seqVars, cfgVars, wdVars>>

\* if err != nil { return err }  and back to the loop condition
FlashDown(t) ==
    /\ pc[t] = "fdown" /\ call[t] = NoCall
    /\ IF err[t]
       THEN TaskExit(t)
       ELSE /\ pc' = [pc EXCEPT ![t] = "fcheck"]
            /\ blink' = [blink EXCEPT ![t] = "lowered"]
            /\ UNCHANGED <<call, err>>
    /\ UNCHANGED <<line, status, flashing, seqVars, cfgVars, wdVars>>

\* ------------------------------------------------------------- watchdog
\* connected(): the values one poll hands to pushConnectionStatus, in order:
\*   if err != nil { pushConnectionStatus(false) }; pushConnectionStatus(true)
Pushes(failed) == IF failed THEN <<FALSE, TRUE>> ELSE <<TRUE>>

\* Mutant of Trigger: no debounce.
TriggerAlways(connAck, cl) == ~connAck

\* ConnectionCheck: `!connAck && checkLoop == 0`
Trigger(connAck, cl) == ~connAck /\ cl = 0

\* _, err := http.Get(...) at the top of the prober's loop (after the 30 s sleep)
Probe ==
    /\ prb = <<>>
    /\ \E failed \in BOOLEAN :
         /\ prb' = Pushes(failed)
         /\ poll' = [failed |-> failed, pushed |-> <<>>]
    /\ UNCHANGED <<line, status, flashing, pc, call, err, seqVars, cfgVars, blink,
                   checkLoop, run>>

\* The body of ConnectionCheck's loop for one received value.
Receive(v) ==
    /\ pc[RepP] = "recv" /\ call[RepP] = NoCall
    /\ IF Trigger(v, checkLoop)
       THEN /\ checkLoop' = 1
            /\ call' = [call EXCEPT ![RepP] = Frame("SetFlashOn", "R")]
            /\ pc' = [pc EXCEPT ![RepP] = "spawn"]
            /\ run' = [run EXCEPT !.len = @ + 1, !.on = @ + 1]
       ELSE IF v
            THEN /\ checkLoop' = 0
                 /\ call' = [call EXCEPT ![RepP] = Frame("SetFlashOff", "R")]
                 /\ pc' = pc
                 /\ run' = [len |-> 0, on |-> 0, spawns |-> 0]
            ELSE /\ UNCHANGED <<checkLoop, call, pc>>
                 /\ run' = [run EXCEPT !.len = @ + 1]
    /\ UNCHANGED <<line, status, flashing, err, seqVars, cfgVars, blink>>

\* connectionChannel <- connection, received by connAck := <-connectionChannel
\* (the channel is unbuffered: send and receive are one step)
pushConnectionStatus ==
    /\ prb # <<>>
    /\ Receive(Head(prb))
    /\ prb' = Tail(prb)
    /\ poll' = [poll EXCEPT !.pushed = Append(@, Head(prb))]

\* go Flashing('R')
RepSpawn ==
    /\ pc[RepP] = "spawn" /\ call[RepP] = NoCall
    /\ FreeSlot("R") # 0
    /\ pc' = [pc EXCEPT ![RepP] = "recv", ![FreeSlot("R")] = "fcheck"]
    /\ run' = [run EXCEPT !.spawns = @ + 1]
    /\ blink' = [blink EXCEPT ![FreeSlot("R")] = "started"]
    /\ UNCHANGED <<line, status, flashing, call, err, seqVars, cfgVars, prb, poll,
                   checkLoop>>

\* go Flashing('R') while every earlier Flashing('R') goroutine is still alive
RepSpawnOver ==
    /\ pc[RepP] = "spawn" /\ call[RepP] = NoCall
    /\ FreeSlot("R") = 0 /\ pc[Spare] = "idle"
    /\ pc' = [pc EXCEPT ![RepP] = "recv", ![Spare] = "fcheck"]
    /\ run' = [run EXCEPT !.spawns = @ + 1]
    /\ blink' = [blink EXCEPT ![Spare] = "started"]
    /\ UNCHANGED <<line, status, flashing, call, err, seqVars, cfgVars, prb, poll,
                   checkLoop>>

\* The reporter fed by an arbitrary sender on connectionChannel.
EnvPush ==
    /\ \E v \in BOOLEAN :
         /\ v \/ run.len < MaxRun
         /\ Receive(v)
    /\ UNCHANGED <<prb, poll>>

\* ------------------------------------------------- int64 and time.Duration
\* An int64 (and a time.Duration, which is an int64 count of nanoseconds) is kept as
\* its Int64Limbs bytes, least significant first, in two's complement.
RECURSIVE Limbs(_, _)
Limbs(n, k) == IF k = 0 THEN <<>> ELSE <<n % LimbBase>> \o Limbs(n \div LimbBase, k - 1)

RECURSIVE AddFrom(_, _, _, _)
AddFrom(a, b, i, carry) ==
    IF i > Int64Limbs THEN <<>>
    ELSE LET s == a[i] + b[i] + carry
         IN <<s % LimbBase>> \o AddFrom(a, b, i + 1, s \div LimbBase)

\* a + b, wrapping
Add64(a, b) == AddFrom(a, b, 1, 0)

\* -a, wrapping
Neg64(a) == Add64([i \in 1..Int64Limbs |-> LimbBase - 1 - a[i]], Limbs(1, Int64Limbs))

\* int64(n) for a small literal n
Int64(n) == IF n >= 0 THEN Limbs(n, Int64Limbs) ELSE Neg64(Limbs(-n, Int64Limbs))

RECURSIVE Column(_, _, _, _)
Column(a, b, k, i) ==
    IF i > k THEN 0 ELSE a[i] * b[k - i + 1] + Column(a, b, k, i + 1)

RECURSIVE MulFrom(_, _, _, _)
MulFrom(a, b, k, carry) ==
    IF k > Int64Limbs THEN <<>>
    ELSE LET s == Column(a, b, k, 1) + carry
         IN <<s % LimbBase>> \o MulFrom(a, b, k + 1, s \div LimbBase)

\* a * b, wrapping: Go's int64 multiplication keeps the low 64 bits
Mul64(a, b) == MulFrom(a, b, 1, 0)

Negative64(a) == a[Int64Limbs] >= LimbBase \div 2

RECURSIVE BelowFrom(_, _, _)
BelowFrom(a, b, i) ==
    IF i = 0 THEN FALSE
    ELSE IF a[i] # b[i] THEN a[i] < b[i] ELSE BelowFrom(a, b, i - 1)

\* a < b on int64
Less64(a, b) ==
    IF Negative64(a) # Negative64(b) THEN Negative64(a) ELSE BelowFrom(a, b, Int64Limbs)

Leq64(a, b) == ~Less64(b, a)

\* package time
Second == Mul64(Int64(1000), Mul64(Int64(1000), Int64(1000)))
Minute == Mul64(Int64(SecondsPerMinute), Second)

\* --------------------------------------------------- Initialize: durations
\* The raw value of a duration variable of the environment: unparsable (or missing),
\* or a whole number of minutes.
RawInputs ==
    {[ok |-> FALSE, minutes |-> 0]}
       \cup {[ok |-> TRUE, minutes |-> m] : m \in (-1)..MaxRawMinutes}

NoRaw == [ok |-> FALSE, minutes |-> 0]

\* time.ParseDuration: the duration in nanoseconds, or the zero duration and an error
ParseDuration(r) ==
    [err |-> ~r.ok, d |-> IF r.ok THEN Mul64(Int64(r.minutes), Minute) ELSE Int64(0)]

\* int64(d.Seconds()) for a duration of whole seconds in the range of the inputs
Seconds(d) ==
    LET range == (-SecondsPerMinute)..(MaxRawMinutes * SecondsPerMinute)
    IN Int64(CHOOSE s \in range : Mul64(Int64(s), Second) = d)

\* Mutant of Floored: no floor.
FlooredNot(d, floor) == d

\* if d < floor { d = floor }
Floored(d, floor) == IF Less64(d, floor) THEN floor ELSE d

MIN_COMMAND_GAP == Mul64(Int64(10), Minute)
MIN_CLEAN_TIMER == Mul64(Int64(5), Minute)
MIN_REVERSE_TIMER == Mul64(Int64(5), Minute)
MIN_GRAVITY_TIMER == Mul64(Int64(5), Minute)

\* MIN_PUMP * int64(time.Minute.Seconds())
MinPumpSeconds == Mul64(Int64(MIN_PUMP), Seconds(Minute))

\* *pumpTimer after l.87-96
PumpTimerOf(r) ==
    LET p == ParseDuration(r)
    IN IF p.err THEN Mul64(Int64(5), Minute) ELSE Floored(Seconds(p.d), MinPumpSeconds)

\* *commandGap, *cleanTimer, *reverseTimer, *gravityTimer after their blocks
DurationOf(r, default, floor) ==
    LET p == ParseDuration(r)
    IN Floored(IF p.err THEN default ELSE p.d, floor)

\* What the sequencer does with *pumpTimer: it compares it with elapsed seconds,
\* sleeps time.Duration(*pumpTimer) * time.Second, and Initialize reports
\* time.Duration(*pumpTimer) in the telemetry configuration.
HoldLimitSeconds(d) == d.pump
HoldSleep(d) == Mul64(d.pump, Second)
ReportedPumpTimer(d) == d.pump

runVars == <<line, status, flashing, pc, call, err, seqVars, enableReverse,
             enableClean, pumpTimer, faulty, wdVars, blink>>

\* One duration block of Initialize; value[r] is what the block leaves in the flag
\* for the raw input r.
ParseStep(i, value, field) ==
    /\ ipc = i
    /\ \E r \in RawInputs :
         /\ raw' = r
         /\ dur' = [dur EXCEPT ![field] = value[r]]
    /\ ipc' = i + 1
    /\ UNCHANGED runVars

ParsePump == ParseStep(0, [r \in RawInputs |-> PumpTimerOf(r)], "pump")

ParseGap ==
    ParseStep(1, [r \in RawInputs |->
                    DurationOf(r, Mul64(Int64(60), Minute), MIN_COMMAND_GAP)], "gap")

ParseClean ==
    ParseStep(2, [r \in RawInputs |->
                    DurationOf(r, Mul64(Int64(5), Minute), MIN_CLEAN_TIMER)], "clean")

ParseReverse ==
    ParseStep(3, [r \in RawInputs |->
                    DurationOf(r, Mul64(Int64(5), Minute), MIN_REVERSE_TIMER)], "reverse")

ParseGravity ==
    ParseStep(4, [r \in RawInputs |->
                    DurationOf(r, Mul64(Int64(5), Minute), MIN_GRAVITY_TIMER)], "gravity")

\* ------------------------------------------------------------------ Init
PumpTimers == {MIN_PUMP * SecondsPerMinute}

Init ==
    /\ line = [l \in Lines |-> FALSE]
    /\ status = [c \in Colors |-> FALSE]
    /\ flashing = [c \in Colors |-> FALSE]
    /\ pc = [p \in Procs |-> IF p = SeqP THEN "ready" ELSE IF p = RepP THEN "recv" ELSE "idle"]
    /\ call = [p \in Procs |-> NoCall]
    /\ err = [p \in Procs |-> FALSE]
    /\ pumpState = FALSE
    /\ reverseState = FALSE
    /\ cleanState = FALSE
    /\ sleepForGap = FALSE
    /\ sinceStart = 0
    /\ attempt = 0
    /\ lastPass = NoPass
    /\ checks = 0
    /\ enableReverse \in BOOLEAN
    /\ enableClean \in BOOLEAN
    /\ pumpTimer \in PumpTimers
    /\ faulty \in {S \in SUBSET Lines : Cardinality(S) <= MaxFaulty}
    /\ log = <<>>
    /\ prb = <<>>
    /\ poll = [failed |-> FALSE, pushed |-> <<>>]
    /\ checkLoop = 0
    /\ run = [len |-> 0, on |-> 0, spawns |-> 0]
    /\ blink = [t \in Tasks \cup {Spare} |-> "none"]
    /\ raw = NoRaw
    /\ dur = [f \in {"pump", "gap", "clean", "reverse", "gravity"} |-> Int64(0)]
    /\ ipc = 0

\* ------------------------------------------------------------------ Next
Flash ==
    \E t \in Tasks : FlashCheck(t) \/ FlashUp(t) \/ FlashDown(t)

Indicator ==
    \E p \in Procs : IndStep(p)

\* handleStartGpio without the sub-pipelines it calls
MainLoop ==
    \/ Ready \/ PumpOn \/ RetrySleep \/ OnPush \/ Hold \/ PumpOff \/ AfterOff
    \/ OffPush \/ Gap

Sequencer ==
    \/ MainLoop
    \/ RevUp \/ RevSpawn \/ RevPush1 \/ RevDown \/ RevPush2
    \/ SvUp \/ OvUp \/ ClUp \/ ClPush1 \/ ClDown \/ ClPush2 \/ OvDown \/ SvDown

Watchdog ==
    \/ Probe \/ pushConnectionStatus \/ RepSpawn

\* The whole program.
Next == Sequencer \/ Flash \/ Indicator \/ Watchdog

Spec == Init /\ [][Next]_vars

\* The whole program when ENABLE_REVERSE is off: handleReverseGpio and, through it,
\* handleCleanGpio are never called, and only the pump and the lights are driven.
InitMain == Init /\ ~enableReverse /\ ~enableClean /\ faulty \subseteq {"pump", "G", "R"}

MainNext == MainLoop \/ Flash \/ Indicator \/ Watchdog

SpecMain == InitMain /\ [][MainNext]_vars

\* The sequencer, and the Flashing tasks it starts scheduled only while the sequencer
\* is inside one of its long sleeps, which end with every task gone or asleep; the
\* watchdog is not scheduled.  The sequencer
\* reads nothing a Flashing task writes, so what it does to its lines, its cached
\* states and its telemetry is the same under every schedule of the tasks.
SeqAsleep ==
    /\ call[SeqP] = NoCall
    /\ \/ pc[SeqP] \in {"revDown", "clDown"}
       \/ pc[SeqP] = "gap" /\ sleepForGap
       \/ pc[SeqP] = "loop" /\ pumpState /\ ~HoldExpired(sinceStart, pumpTimer)

\* Flashing task t is gone or inside its own time.Sleep(3 * time.Second).
Asleep(t) == call[t] = NoCall /\ (pc[t] = "idle" \/ (pc[t] = "fup" /\ ~err[t]))

Settled == \A t \in Tasks : Asleep(t)

\* One task at a time runs from one sleep to the next.
SeqNext ==
    \/ (SeqAsleep => Settled) /\ (Sequencer \/ IndStep(SeqP))
    \/ /\ SeqAsleep
       /\ \E t \in Tasks :
            /\ \A u \in Tasks \ {t} : Asleep(u)
            /\ FlashCheck(t) \/ FlashUp(t) \/ FlashDown(t) \/ IndStep(t)

SpecSeq == Init /\ [][SeqNext]_vars

\* The reporter and its Flashing tasks, fed by an arbitrary sender; only the lines
\* the reporter's side drives can matter.
InitWd == Init /\ ~enableReverse /\ ~enableClean /\ faulty \subseteq {"R"}

WdNext == EnvPush \/ RepSpawn \/ Flash \/ Indicator

SpecWd == InitWd /\ [][WdNext]_vars

\* The prober, the reporter and every Flashing('R') goroutine the reporter starts,
\* under every schedule: nothing orders a Flashing goroutine's read of the flag
\* with the reporter's writes of it, so a goroutine may stay between two reads of
\* the flag for as long as the reporter takes to clear it and set it again.
FlashSpare == FlashCheck(Spare) \/ FlashUp(Spare) \/ FlashDown(Spare)

FlashNext ==
    \/ Probe \/ pushConnectionStatus \/ RepSpawn \/ RepSpawnOver
    \/ Flash \/ FlashSpare \/ Indicator

SpecFlash == InitWd /\ [][FlashNext]_vars

\* ================================================================ claims
RepIdle == pc[RepP] = "recv" /\ call[RepP] = NoCall

PumpLines == {"pump", "reverse", "clean"}
CleanLines == {"switchingValve", "openValve", "clean"}

IsAct(e, ls) == e.k = "act" /\ e.a \in ls

\* The indices of the sequencer events of this segment that satisfy P.
Where(P(_)) == {i \in 1..Len(log) : P(log[i])}

\* C1: at most one of green/yellow/red has its solid status flag true, and when
\* Up(color) returns the status flags of the other two colours are false.  The
\* states in which some process is between the first and the last flag write of an
\* Up call are left out of the first part: there the new flag is already set and the
\* old one not yet cleared, with or without concurrency.
InsideUp(p) == call[p].op = "Up" /\ call[p].step \in {2, 3}

C1_SolidMutex ==
    /\ (\A p \in Procs : ~InsideUp(p)) => Cardinality({c \in Colors : status[c]}) <= 1
    /\ \A p \in Procs :
         (call[p].op = "Up" /\ call[p].step = 4)
            => \A c \in Colors \ {call[p].color} : ~status[c]

\* C2: the pump, reverse-pump and clean-pump lines are never high at the same time,
\* and whenever the pump line has just been driven high the reverse and clean lines
\* are low.
C2_OnePumpLineHigh ==
    /\ Cardinality({l \in PumpLines : line[l]}) <= 1
    /\ (log # <<>> /\ IsAct(log[1], {"pump"}) /\ log[1].v)
          => (~line["reverse"] /\ ~line["clean"])

\* C3: the actuations of a run of the clean sub-pipeline are a prefix of
\* switching valve high, inlet valve high, clean pump high, clean pump low, inlet
\* valve low, switching valve low; and a set-up step is only reached after the step
\* before it succeeded.
CleanSequence ==
    << <<"switchingValve", TRUE>>, <<"openValve", TRUE>>, <<"clean", TRUE>>,
       <<"clean", FALSE>>, <<"openValve", FALSE>>, <<"switchingValve", FALSE>> >>

CleanActs == LET IsCleanAct(e) == IsAct(e, CleanLines) IN SelectSeq(log, IsCleanAct)

C3_CleanOrder ==
    /\ Len(CleanActs) <= Len(CleanSequence)
    /\ \A i \in 1..Len(CleanActs) :
         /\ <<CleanActs[i].a, CleanActs[i].v>> = CleanSequence[i]
         /\ (i > 1 /\ i <= 4) => CleanActs[i - 1].ok

C3_Witness == Len(CleanActs) = 6 /\ pc[SeqP] = "offPush"

\* C4: the pump-off actuation is attempted at a check of the main loop exactly when
\* at least pumpTimer seconds have passed since the recorded pump-on timestamp, and
\* the pump line goes low at no other step.
C4_PumpOffTiming ==
    [][ LET atCheck == pc[SeqP] = "loop" /\ pumpState /\ pc'[SeqP] # "loop"
            offTried == pc[SeqP] = "loop" /\ pumpState
                        /\ pc'[SeqP] \in {"offFailed", "afterOff"}
        IN /\ atCheck => (offTried <=> sinceStart >= pumpTimer)
           /\ (line["pump"] /\ ~line'["pump"]) => (offTried /\ sinceStart >= pumpTimer)
      ]_vars

C4_Witness == pc[SeqP] = "afterOff" /\ ~line["pump"] /\ log[1] = Act("pump", FALSE, "ok")

\* C5: after a failed pump-on or pump-off actuation Red solid-on is attempted, the
\* cached pump state is unchanged, no reading is pushed, no commandGap sleep is taken
\* and, after the 1 s sleep, the same actuation is the next thing tried; after a
\* successful one the cached state has flipped, Green is set (cleared for pump-off)
\* and, once the step is complete, exactly one pump reading has been pushed.
C5_PumpRetry ==
    (log # <<>>) =>
       LET first == log[1]
           IsPumpPush(e) == e = Push("pump", first.v)
           IsGapSleep(e) == e = Sleep("commandGap")
       IN /\ IsAct(first, {"pump"})
          /\ Len(log) >= 2
          /\ ~first.ok =>
               /\ log[2] = Ind("Up", "R")
               /\ Len(log) = 3 => log[3] = Sleep("retry")
               /\ Len(log) <= 3
               /\ pumpState = ~first.v
               /\ ~sleepForGap
               /\ pc[SeqP] = (IF Len(log) = 3 THEN "loop"
                              ELSE IF first.v THEN "onFailed" ELSE "offFailed")
               /\ (pc[SeqP] = "loop" /\ ~first.v) => sinceStart >= pumpTimer
          /\ first.ok =>
               /\ pumpState = first.v
               /\ log[2] = Ind(IF first.v THEN "Up" ELSE "Down", "G")
               /\ Where(IsGapSleep) # {} => Cardinality(Where(IsPumpPush)) = 1
               /\ \A i \in 1..Len(log) : log[i] # Sleep("retry")
               /\ (pc[SeqP] \in {"gap", "loop"} /\ call[SeqP] = NoCall)
                     => Cardinality(Where(IsPumpPush)) = 1

\* the pump has been turned on and reported after an earlier failure raised Red
C5_Witness ==
    /\ log # <<>> /\ log[1] = Act("pump", TRUE, "ok")
    /\ pc[SeqP] = "gap" /\ line["R"]

\* C6: a failure of any actuation step of the clean sub-pipeline is followed at once
\* by the Red alarm, and no later clean step is executed in that cycle.
C6_CleanAbort ==
    \A i \in 1..Len(log) :
       (IsAct(log[i], CleanLines) /\ ~log[i].ok) =>
          /\ i < Len(log) => log[i + 1] = Ind("Up", "R")
          /\ \A j \in (i + 1)..Len(log) : ~IsAct(log[j], CleanLines)

\* C7: a failure of either actuation of the reverse sub-pipeline is followed at once
\* by the Red alarm; the cached reverse state is not updated past the failed step, no
\* further reverse reading is pushed and the clean sub-pipeline is not entered.
C7_ReverseAbort ==
    \A i \in 1..Len(log) :
       (IsAct(log[i], {"reverse"}) /\ ~log[i].ok) =>
          /\ i < Len(log) => log[i + 1] = Ind("Up", "R")
          /\ \A j \in (i + 1)..Len(log) :
                /\ ~IsAct(log[j], CleanLines)
                /\ ~(log[j].k = "push" /\ log[j].a = "reverse")

\* C8: in a run of consecutive Disconnected values the reporter calls SetFlashOn('R')
\* exactly once and starts exactly one Flashing('R') task, at the first of them; once
\* a Connected value has been handled the Red flashing flag is clear and checkLoop is
\* re-armed.
C8_Debounce ==
    /\ run.on <= 1 /\ run.spawns <= run.on
    /\ run.len >= 1 => run.on = 1
    /\ (run.len >= 1 /\ RepIdle) => run.spawns = 1
    /\ (run.len = 0 /\ RepIdle) => (checkLoop = 0 /\ ~flashing["R"])
    /\ run.len >= 1 => checkLoop = 1

C8_Witness == run.len >= 2 /\ RepIdle /\ run.spawns = 1

\* C9: each poll of the prober pushes exactly one value, Disconnected after a failed
\* probe and Connected after a successful one.
C9_OnePushPerPoll ==
    /\ Len(poll.pushed) <= 1
    /\ \A i \in 1..Len(poll.pushed) : poll.pushed[i] = ~poll.failed

\* C10: when a step of the main loop is complete, every successful actuation of a
\* sequencer line in it has exactly one reading with the line and its new state, and
\* there is no other reading.
C10_OneReadingPerActuation ==
    (pc[SeqP] = "gap" /\ call[SeqP] = NoCall) =>
       \A l \in SeqLines : \A v \in BOOLEAN :
          LET IsOk(e) == e.k = "act" /\ e.a = l /\ e.v = v /\ e.ok
              IsPush(e) == e = Push(l, v)
          IN Cardinality(Where(IsPush)) = Cardinality(Where(IsOk))

\* C11: after a successful pump-off the next step clears Green, the pump-off reading
\* is pushed before the first actuation of the reverse (or clean) sub-pipeline, and
\* the commandGap sleep comes after every actuation of the sub-pipelines.
C11_PumpOffOrder ==
    (log # <<>> /\ log[1] = Act("pump", FALSE, "ok")) =>
       LET IsPumpPush(e) == e = Push("pump", FALSE)
           IsSub(e) == IsAct(e, {"reverse"} \cup CleanLines)
           IsGapSleep(e) == e = Sleep("commandGap")
       IN /\ Len(log) >= 2 /\ log[2] = Ind("Down", "G")
          /\ \A i \in Where(IsSub) : \E j \in Where(IsPumpPush) : j < i
          /\ \A i \in Where(IsGapSleep) : \A j \in Where(IsSub) : j < i

\* C12: the readiness loop does not go on after more than MAX_RETRY failed passes:
\* by then the process has terminated.
C12_ReadyBounded == checks > MAX_RETRY => pc[SeqP] = "exited"

\* C13: while the sequencer is in the readiness loop (or has exited from it) no
\* sequencer line is high and nothing has been actuated or pushed; once it is past
\* the loop, the latest pass found the device in the registry and got a response
\* from the companion endpoint, with status 200 when the body could not be read.
C13_ReadyBeforeActuation ==
    /\ pc[SeqP] \in {"ready", "exited"} =>
          /\ \A l \in SeqLines : ~line[l]
          /\ log = <<>> /\ ~pumpState /\ call[SeqP] = NoCall
    /\ pc[SeqP] \notin {"ready", "exited"} =>
          /\ lastPass.device /\ lastPass.endpoint
          /\ ~lastPass.body => lastPass.status200

\* the pump was turned on and reported after a pass with an unreadable body and
\* status 200, which followed a pass that failed
C13_Witness ==
    /\ log # <<>> /\ log[1] = Act("pump", TRUE, "ok") /\ Push("pump", TRUE) = log[Len(log)]
    /\ ~lastPass.body /\ lastPass.status200 /\ attempt > 0

\* C14: at the end of a cycle whose pump-off succeeded, the reverse steps have run
\* exactly when enableReverse is set; the clean steps have run when enableClean is
\* set (unless a failed reverse step aborted the cycle) and not otherwise; and with
\* both flags off the cycle is the pump-off, the clearing of Green and the reading.
C14_IndependentFlags ==
    (pc[SeqP] = "gap" /\ call[SeqP] = NoCall /\ log # <<>>
        /\ log[1] = Act("pump", FALSE, "ok")) =>
       LET IsRev(e) == IsAct(e, {"reverse"})
           IsRevFail(e) == IsAct(e, {"reverse"}) /\ ~e.ok
           IsClean(e) == IsAct(e, CleanLines)
       IN /\ enableReverse <=> Where(IsRev) # {}
          /\ (enableClean /\ Where(IsRevFail) = {}) => Where(IsClean) # {}
          /\ ~enableClean => Where(IsClean) = {}
          /\ (~enableReverse /\ ~enableClean) =>
                log = <<Act("pump", FALSE, "ok"), Ind("Down", "G"), Push("pump", FALSE)>>

\* C15: a Flashing task raises its line only when it has just been started or has
\* just waited one blink interval, and lowers it only after a wait: the line-low
\* phase lasts one interval like the line-high phase.
C15_BlinkPeriod ==
    \A t \in Tasks :
       /\ pc[t] = "fup" => blink[t] \in {"started", "slept"}
       /\ pc[t] = "fdown" => blink[t] = "slept"

\* The whole program with the reverse sub-pipeline enabled, the clean one disabled,
\* every line working and the readiness preconditions holding at the first pass:
\* the sequencer, the Flashing tasks and the watchdog under every interleaving.
InitRev == Init /\ enableReverse /\ ~enableClean /\ faulty = {}

ReadyAtOnce == Ready /\ lastPass'.body

RevNext ==
    \/ ReadyAtOnce \/ PumpOn \/ OnPush \/ Hold \/ PumpOff \/ AfterOff \/ OffPush \/ Gap
    \/ RevUp \/ RevSpawn \/ RevPush1 \/ RevDown \/ RevPush2
    \/ Flash \/ Indicator \/ Watchdog

SpecRev == InitRev /\ [][RevNext]_vars

\* C16: from the return of SetFlashOn('G') after the reverse line went high until the
\* reverse line is driven low, the Green flashing flag is set, and once the Green
\* Flashing task has been started it is still running.
C16_GreenFlashesDuringReverse ==
    /\ (pc[SeqP] \in {"revSpawn", "revPush1", "revDown"} /\ call[SeqP] = NoCall)
          => flashing["G"]
    /\ (pc[SeqP] \in {"revPush1", "revDown"} /\ call[SeqP] = NoCall)
          => \E t \in Tasks : TaskColor(t) = "G" /\ pc[t] # "idle"

\* C17: from the return of the reporter's SetFlashOn('R') until the reporter receives
\* a Connected value, the Red flashing flag is set.
C17_RedFlashesUntilConnected ==
    (checkLoop = 1 /\ call[RepP] = NoCall) => flashing["R"]

\* C18: when Up or Down of Green or Yellow has returned an error to the sequencer or
\* to a Flashing task, the next thing that process does is call Up('R'); when the
\* sequencer's Up('R') itself has failed, its next step is not another Up('R').
IndicatorFailed(p) ==
    /\ call[p] = NoCall /\ err[p]
    /\ IF p = SeqP
       THEN /\ log # <<>>
            /\ log[Len(log)].k = "ind"
            /\ log[Len(log)].a \in {"Up", "Down"} /\ log[Len(log)].b \in {"G", "Y"}
       ELSE p \in Tasks /\ pc[p] \in {"fup", "fdown"} /\ TaskColor(p) \in {"G", "Y"}

EscalationFailed ==
    /\ call[SeqP] = NoCall /\ err[SeqP]
    /\ log # <<>> /\ log[Len(log)] = Ind("Up", "R")

C18_IndicatorEscalation ==
    [][ /\ \A p \in Procs :
             (IndicatorFailed(p) /\ (pc'[p] # pc[p] \/ call'[p] # call[p]))
                => call'[p] = Frame("Up", "R")
        /\ (EscalationFailed /\ (pc'[SeqP] # pc[SeqP] \/ call'[SeqP] # call[SeqP]))
                => call'[SeqP] # Frame("Up", "R")
      ]_vars

\* Initialize's computation of the five durations, for every raw input.  The flags
\* start at their zero defaults; the goroutines are not started yet.
InitCfg == Init /\ ~enableReverse /\ ~enableClean /\ faulty = {}

CfgNext == ParsePump \/ ParseGap \/ ParseClean \/ ParseReverse \/ ParseGravity

SpecCfg == InitCfg /\ [][CfgNext]_vars

\* C19: once Initialize has set a duration, the value the sequencer uses is at least
\* its floor in the unit in which it is used: the pump hold limit in seconds and the
\* pump hold sleep in nanoseconds are at least 5 minutes, commandGap at least 10
\* minutes, the clean, reverse and gravity timers at least 5 minutes.
C19_DurationFloors ==
    /\ ipc >= 1 =>
          /\ Leq64(Int64(MIN_PUMP * SecondsPerMinute), HoldLimitSeconds(dur))
          /\ Leq64(Mul64(Int64(MIN_PUMP), Minute), HoldSleep(dur))
    /\ ipc >= 2 => Leq64(Mul64(Int64(10), Minute), dur.gap)
    /\ ipc >= 3 => Leq64(Mul64(Int64(5), Minute), dur.clean)
    /\ ipc >= 4 => Leq64(Mul64(Int64(5), Minute), dur.reverse)
    /\ ipc >= 5 => Leq64(Mul64(Int64(5), Minute), dur.gravity)

\* all five are set, the last from a negative input and the first from an
\* unparsable one
C19_Witness ==
    /\ ipc = 5 /\ raw = [ok |-> TRUE, minutes |-> -1]
    /\ dur.gravity = MIN_GRAVITY_TIMER
    /\ dur.pump = Mul64(Int64(5), Minute)

\* C20: after an unparsable (or missing) PUMP_TIMEOUT the limit of the hold check is
\* 300 seconds, the hold sleep is 300 s in nanoseconds and the PumpTimer reported in
\* the configuration is 5 minutes.
C20_PumpDefault ==
    (ipc = 1 /\ ~raw.ok) =>
       /\ HoldLimitSeconds(dur) = Int64(MIN_PUMP * SecondsPerMinute)
       /\ HoldSleep(dur) = Mul64(Int64(MIN_PUMP), Minute)
       /\ ReportedPumpTimer(dur) = Mul64(Int64(MIN_PUMP), Minute)

\* C21: when the sequencer's Up('G') and the Red Flashing task's Up('R') have both
\* returned and neither process has made another indicator call since, one of the
\* two colours is solid: run one after the other in either order, the later of the
\* two calls leaves its own colour set.
C21_NoLostUpdate ==
    \A t \in Tasks :
       (/\ SeqAt("onPush") /\ log = <<Act("pump", TRUE, "ok"), Ind("Up", "G")>>
        /\ TaskColor(t) = "R" /\ pc[t] = "fup" /\ call[t] = NoCall)
          => (status["G"] \/ status["R"])

\* C22: from the return of a successful Up('G') after a successful pump-on until the
\* pump-off is attempted, the Green solid flag is true.
C22_GreenWhilePumping ==
    (/\ log # <<>> /\ log[1] = Act("pump", TRUE, "ok")
     /\ pc[SeqP] \in {"onPush", "gap", "loop"} /\ call[SeqP] = NoCall /\ ~err[SeqP])
       => status["G"]

\* C23: an indicator call (Up, Down, SetFlashOn, SetFlashOff, made by the sequencer,
\* the reporter or a Flashing task) is only in progress on a colour whose record
\* has been allocated.
C23_IndicatorsAllocated ==
    \A p \in Procs : call[p] # NoCall => call[p].color \in Allocated

\* The Flashing(c) goroutines that are inside the loop body (between the read of the
\* flag that let them in and the next one).
Toggling(c) == {t \in Tasks \cup {Spare} : TaskColor(t) = c /\ pc[t] \in {"fup", "fdown"}}

\* C24: for each colour at most one Flashing goroutine is inside its loop, toggling
\* the colour's line, whatever the order in which SetFlashOn, go Flashing and
\* SetFlashOff are issued and observed.
C24_OneFlasherPerColour ==
    \A c \in Colors : Cardinality(Toggling(c)) <= 1

\* C25: whenever the pump line has just been driven high at the start of a cycle,
\* the switching valve line and the inlet (open) valve line are both low.
C25_ValvesRestored ==
    (log # <<>> /\ log[1] = Act("pump", TRUE, "ok"))
       => (~line["switchingValve"] /\ ~line["openValve"])

\* C26: between indicator calls every cached flag agrees with its line: a colour's
\* solid `status` flag is true exactly when its line is high, and the cached State
\* of the pump, the reverse pump and the clean pump is true exactly when that line
\* is high.
C26_FlagsAgree ==
    /\ (\A p \in Procs : call[p] = NoCall) => \A c \in Colors : status[c] <=> line[c]
    /\ pumpState <=> line["pump"]
    /\ reverseState <=> line["reverse"]
    /\ cleanState <=> line["clean"]

====
